---- MODULE Spec2Model ----
(***************************************************************************)
(* A model of app.py of the akiti translator: the dictionary loader, the   *)
(* grammar extender, the TwiTranslator wrapper around the external urbans  *)
(* engine, and translate_sentence.  Python strings are modelled as         *)
(* sequences of one-character strings, so that split, replace, lower and   *)
(* the regular expressions are computed character by character.            *)
(***************************************************************************)
EXTENDS Naturals, Integers, Sequences, FiniteSets, TLC

VARIABLES
  base,        \* build_extended_grammar: which template is passed in
  sentences,   \* build_extended_grammar: the sentences passed in
  grammar,     \* build_extended_grammar: the string returned
  gpc,         \* "call" before build_extended_grammar ran, "done" after
  d_words,     \* d: the word map handed to TwiTranslator
  p_phrases,   \* p: the phrase map handed to TwiTranslator
  phrases,                \* TwiTranslator.phrases
  src_to_tgt_dictionary,  \* TwiTranslator.src_to_tgt_dictionary
  out,         \* translate: the list of outputs so far
  engine_log,  \* the calls of the engine's translate: sentence and outcome
  tpc,         \* where the TwiTranslator is: new, constructed, loop, ...
  console,     \* what was printed to the process's standard output
  f,           \* what was printed to the StringIO of translate_sentence
  sys_stdout,  \* where print writes: "console" or "f"
  english_sentence,  \* translate_sentence: the input
  show_details,      \* translate_sentence: whether diagnostics are wanted
  csv_file,    \* the dictionary file as load_dict finds it
  loaded,      \* whether load_dict was called
  translation, \* translate_sentence: the local of that name
  debug_output,      \* translate_sentence: the local of that name
  result,      \* the pair translate_sentence returned
  rpc,         \* where translate_sentence is: start, loaded, ..., returned
  threads      \* the requests running as threads of the UI, each with its locals

gvars == <<base, sentences, grammar, gpc>>

tvars == <<d_words, p_phrases, phrases, src_to_tgt_dictionary, out, engine_log, tpc>>

iovars == <<console, f, sys_stdout>>

rvars == <<english_sentence, show_details, csv_file, loaded, translation,
           debug_output, result, rpc>>

vars == <<gvars, tvars, iovars, rvars, threads>>

(***************************************************************************)
(* Characters and the str methods the program uses                         *)
(***************************************************************************)

\* The printable ASCII characters in code-point order, 32 (space) first
\* (code point 96 is written out by name).
Printable ==
  <<
    " ", "!", "\"", "#", "$", "%", "&", "'", "(", ")", "*", "+", ",", "-",
    ".", "/", "0", "1", "2", "3", "4", "5", "6", "7", "8", "9", ":", ";",
    "<", "=", ">", "?", "@", "A", "B", "C", "D", "E", "F", "G", "H", "I",
    "J", "K", "L", "M", "N", "O", "P", "Q", "R", "S", "T", "U", "V", "W",
    "X", "Y", "Z", "[", "\\", "]", "^", "_", "grave", "a", "b", "c", "d", "e",
    "f", "g", "h", "i", "j", "k", "l", "m", "n", "o", "p", "q", "r", "s",
    "t", "u", "v", "w", "x", "y", "z", "{", "|", "}", "~" >>

\* ord(c)
Ord(c) ==
  IF c = "\t" THEN 9
  ELSE IF c = "\n" THEN 10
  ELSE 31 + (CHOOSE i \in 1..Len(Printable) : Printable[i] = c)

\* chr(n) for a printable code point
Chr(n) == Printable[n - 31]

UpperChars == {Chr(n) : n \in 65..90}

LowerChars == {Chr(n) : n \in 97..122}

DigitChars == {Chr(n) : n \in 48..57}

\* [A-Z], and str.isupper() of one ASCII character
IsUpperChar(c) == c \in UpperChars

\* [a-z]
IsLowerChar(c) == c \in LowerChars

\* \w of the re module, on ASCII
IsWordChar(c) == c \in UpperChars \cup LowerChars \cup DigitChars \cup {"_"}

\* \s of the re module and the separators of str.split() and str.strip()
IsSpace(c) == c \in {" ", "\t", "\n"}

LowerChar(c) == IF IsUpperChar(c) THEN Chr(Ord(c) + 32) ELSE c

UpperChar(c) == IF IsLowerChar(c) THEN Chr(Ord(c) - 32) ELSE c

\* str.lower()
Lower(s) == [i \in 1..Len(s) |-> LowerChar(s[i])]

\* s[p:].startswith(lit)
MatchAt(s, p, lit) ==
  /\ p + Len(lit) - 1 <= Len(s)
  /\ SubSeq(s, p, p + Len(lit) - 1) = lit

\* str.startswith
StartsWith(s, prefix) == MatchAt(s, 1, prefix)

RECURSIVE SplitFrom(_, _, _)
SplitFrom(s, i, cur) ==
  IF i > Len(s) THEN (IF cur = <<>> THEN <<>> ELSE <<cur>>)
  ELSE IF IsSpace(s[i])
    THEN (IF cur = <<>> THEN <<>> ELSE <<cur>>) \o SplitFrom(s, i + 1, <<>>)
    ELSE SplitFrom(s, i + 1, Append(cur, s[i]))

\* str.split() with no argument: the whitespace-delimited tokens
StrSplit(s) == SplitFrom(s, 1, <<>>)

\* s.find(sep, i): the first position >= i where sep occurs, 0 for none
Find(s, i, sep) ==
  IF \E p \in i..Len(s) : MatchAt(s, p, sep)
    THEN CHOOSE p \in i..Len(s) :
           /\ MatchAt(s, p, sep)
           /\ \A r \in i..(p - 1) : ~MatchAt(s, r, sep)
    ELSE 0

RECURSIVE SplitByFrom(_, _, _)
SplitByFrom(s, i, sep) ==
  LET n == Find(s, i, sep)
  IN IF n = 0 THEN <<SubSeq(s, i, Len(s))>>
     ELSE <<SubSeq(s, i, n - 1)>> \o SplitByFrom(s, n + Len(sep), sep)

\* str.split(sep)
SplitBy(s, sep) == SplitByFrom(s, 1, sep)

RECURSIVE Join(_, _)
\* sep.join(words)
Join(sep, words) ==
  IF words = <<>> THEN <<>>
  ELSE IF Len(words) = 1 THEN words[1]
  ELSE words[1] \o sep \o Join(sep, Tail(words))

RECURSIVE ReplaceFrom(_, _, _, _)
ReplaceFrom(s, i, old, new) ==
  IF i > Len(s) THEN <<>>
  ELSE IF MatchAt(s, i, old)
    THEN new \o ReplaceFrom(s, i + Len(old), old, new)
    ELSE <<s[i]>> \o ReplaceFrom(s, i + 1, old, new)

\* str.replace(old, new) for a non-empty old: left to right, non-overlapping
Replace(s, old, new) == ReplaceFrom(s, 1, old, new)

RECURSIVE LStrip(_)
LStrip(s) == IF s # <<>> /\ IsSpace(s[1]) THEN LStrip(Tail(s)) ELSE s

RECURSIVE RStrip(_)
RStrip(s) ==
  IF s # <<>> /\ IsSpace(s[Len(s)]) THEN RStrip(SubSeq(s, 1, Len(s) - 1)) ELSE s

\* str.strip()
Strip(s) == RStrip(LStrip(s))

RECURSIVE StrLess(_, _)
\* a < b on str: by code point, a proper prefix first
StrLess(a, b) ==
  IF b = <<>> THEN FALSE
  ELSE IF a = <<>> THEN TRUE
  ELSE IF a[1] # b[1] THEN Ord(a[1]) < Ord(b[1])
  ELSE StrLess(Tail(a), Tail(b))

RECURSIVE TupleLess(_, _)
\* x < y on tuples of str
TupleLess(x, y) ==
  IF y = <<>> THEN FALSE
  ELSE IF x = <<>> THEN TRUE
  ELSE IF x[1] # y[1] THEN StrLess(x[1], y[1])
  ELSE TupleLess(Tail(x), Tail(y))

RECURSIVE SortedStrs(_)
\* sorted(S) for a set of str
SortedStrs(S) ==
  IF S = {} THEN <<>>
  ELSE LET m == CHOOSE x \in S : \A y \in S \ {x} : StrLess(x, y)
       IN <<m>> \o SortedStrs(S \ {m})

RECURSIVE SortedTuples(_)
\* sorted(S) for a set of tuples of str
SortedTuples(S) ==
  IF S = {} THEN <<>>
  ELSE LET m == CHOOSE x \in S : \A y \in S \ {x} : TupleLess(x, y)
       IN <<m>> \o SortedTuples(S \ {m})

RECURSIVE Decimal(_)
\* str(n) for n >= 0
Decimal(n) ==
  IF n < 10 THEN <<Chr(48 + n)>> ELSE Decimal(n \div 10) \o <<Chr(48 + (n % 10))>>

\* the elements of a list
Range(seq) == {seq[i] : i \in DOMAIN seq}

(***************************************************************************)
(* _CAP_RE and extract_multiword_names                                     *)
(***************************************************************************)

\* \b at position p: between s[p-1] and s[p]
WordBoundary(s, p) ==
  LET before == p > 1 /\ IsWordChar(s[p - 1])
      after  == p <= Len(s) /\ IsWordChar(s[p])
  IN before # after

RECURSIVE LowerRun(_, _)
\* how many characters [a-z]* takes at p when greedy
LowerRun(s, p) ==
  IF p <= Len(s) /\ IsLowerChar(s[p]) THEN 1 + LowerRun(s, p + 1) ELSE 0

RECURSIVE SpaceRun(_, _)
\* how many characters \s+ takes at p when greedy
SpaceRun(s, p) ==
  IF p <= Len(s) /\ IsSpace(s[p]) THEN 1 + SpaceRun(s, p + 1) ELSE 0

\* the literal alternatives of the group, in the order the pattern tries them
Connectors == << <<"n", "e">>,
     <<"a", "n", "d">>,
     <<"o", "f">>,
     <<"d", "e">>,
     <<"b", "i", "n">> >>

RECURSIVE CapTail(_, _), CapIter(_, _, _), CapAlt(_, _, _), CapWord(_, _, _)
\* (?:\s+(?:ne|and|of|de|bin|[A-Z][a-z]*))*\b  from p: the position after the
\* match the backtracking matcher finds first, 0 when there is none
CapTail(s, p) ==
  LET r == CapIter(s, p, SpaceRun(s, p))
  IN IF r # 0 THEN r ELSE IF WordBoundary(s, p) THEN p ELSE 0

\* one more repetition of the group, \s+ taking k characters, then fewer
CapIter(s, p, k) ==
  IF k = 0 THEN 0
  ELSE LET r == CapAlt(s, p + k, 1)
       IN IF r # 0 THEN r ELSE CapIter(s, p, k - 1)

\* the alternatives a, a+1, ... of the group at q
CapAlt(s, q, a) ==
  IF a <= Len(Connectors)
    THEN LET r == IF MatchAt(s, q, Connectors[a])
                    THEN CapTail(s, q + Len(Connectors[a]))
                    ELSE 0
         IN IF r # 0 THEN r ELSE CapAlt(s, q, a + 1)
    ELSE IF q <= Len(s) /\ IsUpperChar(s[q])
           THEN CapWord(s, q + 1, LowerRun(s, q + 1))
           ELSE 0

\* [a-z]* taking j characters at q, then fewer, followed by the rest
CapWord(s, q, j) ==
  LET r == CapTail(s, q + j)
  IN IF r # 0 THEN r ELSE IF j = 0 THEN 0 ELSE CapWord(s, q, j - 1)

\* _CAP_RE.match(s, p): the end of the match, 0 for no match
CapMatchAt(s, p) ==
  IF WordBoundary(s, p) /\ p <= Len(s) /\ IsUpperChar(s[p])
    THEN CapWord(s, p + 1, LowerRun(s, p + 1))
    ELSE 0

RECURSIVE CapFindFrom(_, _)
CapFindFrom(s, p) ==
  IF p > Len(s) THEN <<>>
  ELSE LET e == CapMatchAt(s, p)
       IN IF e # 0
            THEN <<SubSeq(s, p, e - 1)>> \o CapFindFrom(s, e)
            ELSE CapFindFrom(s, p + 1)

\* _CAP_RE.findall(s)
CapFindAll(s) == CapFindFrom(s, 1)

\* the set `names` built by the two loops of extract_multiword_names
MultiwordNameSet(sents) ==
  { StrSplit(m) : m \in { x \in UNION { Range(CapFindAll(sents[i])) :
                                          i \in DOMAIN sents } :
                          Len(StrSplit(x)) > 1 } }

extract_multiword_names(sents) == SortedTuples(MultiwordNameSet(sents))

(***************************************************************************)
(* build_extended_grammar                                                  *)
(***************************************************************************)

\* the base grammar template
ENG_GRAMMAR ==
  <<
    "\n", "S", " ", " ", " ", "-", ">", " ", "N", "P", " ", "V", "P", " ",
    "|", " ", "Q", "P", " ", "|", " ", "P", "H", "R", "A", "S", "E", "\n",
    "N", "P", " ", " ", "-", ">", " ", "P", "R", "P", " ", "|", " ", "D",
    "E", "T", " ", "J", "J", " ", "N", "N", " ", "|", " ", "D", "E", "T",
    " ", "N", "N", " ", "|", " ", "J", "J", " ", "N", "N", " ", "|", " ",
    "N", "N", " ", "|", " ", "P", "R", "O", "P", "N", "\n", "V", "P", " ",
    " ", "-", ">", " ", "V", " ", "N", "P", " ", "|", " ", "V", " ", "P",
    "P", " ", "|", " ", "V", " ", "N", "P", " ", "P", "P", " ", "|", " ",
    "V", " ", "|", " ", "A", "U", "X", " ", "V", " ", "P", "P", " ", "|",
    " ", "A", "U", "X", " ", "V", "\n", "P", "P", " ", " ", "-", ">", " ",
    "P", " ", "D", "E", "T", " ", "N", "N", " ", "|", " ", "P", " ", "N",
    "N", " ", "|", " ", "P", " ", "P", "R", "O", "P", "N", "\n", "Q", "P",
    " ", " ", "-", ">", " ", "W", "P", " ", "A", "U", "X", " ", "P", "R",
    "P", " ", "|", " ", "W", "P", " ", "V", " ", "P", "R", "P", " ", "N",
    "N", "\n", "P", "H", "R", "A", "S", "E", " ", "-", ">", " ", "W", "P",
    " ", "A", "U", "X", " ", "P", "R", "P", "\n", "P", "R", "P", " ", "-",
    ">", " ", "'", "I", "'", " ", "|", " ", "'", "y", "o", "u", "'", " ",
    "|", " ", "'", "m", "e", "'", "\n", "W", "P", " ", " ", "-", ">", " ",
    "'", "h", "o", "w", "'", " ", "|", " ", "'", "w", "h", "a", "t", "'",
    " ", "|", " ", "'", "w", "h", "e", "r", "e", "'", "\n", "V", " ", " ",
    " ", "-", ">", " ", "'", "l", "o", "v", "e", "'", " ", "|", " ", "'",
    "h", "a", "t", "e", "'", " ", "|", " ", "'", "g", "o", "i", "n", "g",
    "'", " ", "|", " ", "'", "g", "o", "'", " ", "|", " ", "'", "i", "s",
    "'", " ", "|", " ", "'", "a", "r", "e", "'", " ", "|", " ", "'", "l",
    "o", "v", "e", "s", "'", " ", "|", " ", "'", "m", "e", "t", "'", " ",
    "|", " ", "'", "w", "o", "r", "k", "'", " ", "|", " ", "'", "v", "i",
    "s", "i", "t", "e", "d", "'", "\n", "A", "U", "X", " ", "-", ">", " ",
    "'", "a", "m", "'", " ", "|", " ", "'", "i", "s", "'", " ", "|", " ",
    "'", "a", "r", "e", "'", " ", "|", " ", "'", "d", "o", "'", "\n", "D",
    "E", "T", " ", "-", ">", " ", "'", "t", "h", "e", "'", " ", "|", " ",
    "'", "a", "'", " ", "|", " ", "'", "a", "t", "'", "\n", "P", " ", " ",
    " ", "-", ">", " ", "'", "t", "o", "'", " ", "|", " ", "'", "i", "n",
    "'", " ", "|", " ", "'", "o", "n", "'", " ", "|", " ", "'", "a", "t",
    "'", "\n", "J", "J", " ", " ", "-", ">", " ", "'", "g", "o", "o", "d",
    "'", " ", "|", " ", "'", "b", "a", "d", "'", " ", "|", " ", "'", "m",
    "y", "'", " ", "|", " ", "'", "y", "o", "u", "r", "'", "\n", "N", "N",
    " ", " ", "-", ">", " ", "'", "d", "o", "g", "s", "'", " ", "|", " ",
    "'", "n", "a", "m", "e", "'", " ", "|", " ", "'", "m", "a", "r", "k",
    "e", "t", "'", " ", "|", " ", "'", "d", "o", "g", "'", " ", "|", " ",
    "'", "b", "a", "n", "k", "'", "\n", "P", "R", "O", "P", "N", " ", "-",
    ">", " ", "A", "N", "Y", "_", "W", "O", "R", "D", "\n" >>

\* the tokens never taken as single proper nouns
Stoplist == { <<"I">>, <<"T", "h", "e">>, <<"A">>, <<"A", "n">> }

\* `single` as it would be without the test against the stoplist
SingleNames_NoStoplist(sents) ==
  { w \in UNION { Range(StrSplit(sents[i])) : i \in DOMAIN sents } :
      IsUpperChar(w[1]) }

\* the set comprehension `single`
SingleNames(sents) ==
  { w \in UNION { Range(StrSplit(sents[i])) : i \in DOMAIN sents } :
      IsUpperChar(w[1]) /\ w \notin Stoplist }

PropnPrefix == <<"P", "R", "O", "P", "N", " ", "-", ">">>

\* f"'{w}'"
Quote(w) == <<"'">> \o w \o <<"'">>

\* f"MWP_{j}" (j counts from 0)
MwpName(j) == <<"M", "W", "P", "_">> \o Decimal(j)

\* the list `rest` of the PROPN line
PropnRest(single, multi) ==
  [k \in 1..Cardinality(single) |-> Quote(SortedStrs(single)[k])]
    \o [j \in 1..Len(multi) |-> MwpName(j - 1)]

\* the first line starting with PROPN ->, 0 when there is none
PropnLine(lines) ==
  IF \E i \in DOMAIN lines : StartsWith(lines[i], PropnPrefix)
    THEN CHOOSE i \in DOMAIN lines :
           /\ StartsWith(lines[i], PropnPrefix)
           /\ \A k \in 1..(i - 1) : ~StartsWith(lines[k], PropnPrefix)
    ELSE 0

\* f"MWP_{j} -> " + " ".join(f"'{w}'" for w in mwp)
MwpRule(j, mwp) ==
  MwpName(j) \o <<" ", "-", ">", " ">> \o Join(<<" ">>, [k \in 1..Len(mwp) |-> Quote(mwp[k])])

build_extended_grammar(tmpl, sents) ==
  LET single == SingleNames(sents)
      multi  == extract_multiword_names(sents)
      lines  == SplitBy(Strip(tmpl), <<"\n">>)
      i      == PropnLine(lines)
      lines1 == IF i = 0 THEN lines
                ELSE [lines EXCEPT ![i] =
                        <<"P", "R", "O", "P", "N", " ", "-", ">", " ">> \o Join(<<" ", "|", " ">>, PropnRest(single, multi))]
      lines2 == lines1 \o [j \in 1..Len(multi) |-> MwpRule(j - 1, multi[j])]
  IN Join(<<"\n">>, lines2)

(***************************************************************************)
(* TwiTranslator                                                           *)
(***************************************************************************)

\* the key as it would be without lower()
PhraseKey_AsTyped(s) == s

\* key = s.lower()
PhraseKey(s) == Lower(s)

\* tw[0].upper() + tw[1:] when tw is not empty
Capitalize(tw) ==
  IF tw # <<>> THEN <<UpperChar(tw[1])>> \o Tail(tw) ELSE tw

\* tw.replace("I ", "Me ").replace(" I", " Me")
PronounFix(tw) == Replace(Replace(tw, <<"I", " ">>, <<"M", "e", " ">>), <<" ", "I">>, <<" ", "M", "e">>)

\* the replacements of the stray lower-case i
StrayFix(tw) ==
  Replace(Replace(Replace(Replace(tw, <<" ", "i", " ">>, <<" ", "m", "e", " ">>), <<" ", "i", ",">>, <<" ", "m", "e", ",">>),
                  <<" ", "i", ".">>, <<" ", "m", "e", ".">>), <<" ", "i", "!">>, <<" ", "m", "e", "!">>)

\* the post-processing of translate
PostProcess(tw) == Capitalize(StrayFix(PronounFix(tw)))

\* the word put for one token by dictionary_fallback
FallbackWord(word, dict, phr) ==
  LET lower_word == Lower(word)
  IN IF lower_word \in DOMAIN dict
       THEN (IF dict[lower_word] # <<>> THEN dict[lower_word] ELSE word)
       ELSE IF lower_word \in DOMAIN phr THEN phr[lower_word]
       ELSE word

dictionary_fallback(sentence, dict, phr) ==
  LET words == StrSplit(sentence)
      translated_words == [k \in 1..Len(words) |-> FallbackWord(words[k], dict, phr)]
  IN PronounFix(Join(<<" ">>, translated_words))

\* What the engine's translate can do with one sentence: return a list whose
\* first string is `first`, return an empty list, return an empty string, or
\* raise.
EngineOutcome(kind, first) == [kind |-> kind, first |-> first]

\* tw of one pass of the loop of translate for a sentence that is no phrase
TranslationOf(s, outcome, dict, phr) ==
  IF outcome.kind = "raises" THEN dictionary_fallback(s, dict, phr)
  ELSE PostProcess(IF outcome.kind = "strings" THEN outcome.first ELSE s)

(***************************************************************************)
(* Inputs: lists of sentences put together from a few pieces               *)
(***************************************************************************)

\* the longest input, in pieces
MaxPieces == 3

\* every string made of at most n of the pieces
Strings(pieces, n) ==
  { Join(<<>>, [i \in DOMAIN code |-> pieces[code[i]]]) :
      code \in UNION { [1..k -> 1..Len(pieces)] : k \in 0..n } }

\* every list of one or two sentences of at most n pieces in all, the break
\* between two sentences counting as a piece
SentenceLists(pieces, n) ==
  { <<s>> : s \in Strings(pieces, n) }
    \cup UNION { { <<a, b>> : a \in Strings(pieces, k),
                              b \in Strings(pieces, n - 1 - k) } :
                 k \in 0..(n - 1) }

\* capitalised words, two words of the stoplist, a connector, blank and dot
GrammarPieces == << <<"K", "o">>,
     <<"I">>,
     <<"A", "n">>,
     <<"n", "e">>,
     <<" ">>,
     <<".">> >>

(***************************************************************************)
(* The grammar extender run on its own                                     *)
(***************************************************************************)

\* the template a name stands for
\* a template with no proper-noun production at all
NoPropnTemplate ==
  <<"S", " ", "-", ">", " ", "N", "P", " ", "V", "P", "\n", "N", "P", " ", "-", ">", " ", "'", "x", "'", " ", "|", " ", "N", "A", "M", "E", "\n", "N", "A", "M", "E", " ", "-", ">", " ", "'", "y", "'">>

\* a template that mentions PROPN -> but on no line as its beginning
PropnInsideTemplate ==
  <<"S", " ", "-", ">", " ", "N", "P", "\n", "N", "P", " ", "-", ">", " ", "P", "R", "O", "P", "N", "\n", "X", " ", "P", "R", "O", "P", "N", " ", "-", ">", " ", "'", "a", "'">>

TemplateText(name) ==
  CASE name = "ENG_GRAMMAR" -> ENG_GRAMMAR
    [] name = "NO_PROPN" -> NoPropnTemplate
    [] name = "PROPN_INSIDE" -> PropnInsideTemplate
    [] OTHER -> <<>>

\* no TwiTranslator exists
NoTranslator ==
  /\ d_words = <<>> /\ p_phrases = <<>>
  /\ phrases = <<>> /\ src_to_tgt_dictionary = <<>>
  /\ out = <<>> /\ engine_log = <<>>
  /\ tpc = "none"

\* nothing printed, print writing to the console
QuietConsole == console = <<>> /\ f = <<>> /\ sys_stdout = "console"

\* no request running as a thread of the UI
NoThreads == threads = <<>>

\* no call of translate_sentence
NoRequest ==
  /\ english_sentence = <<>> /\ show_details = FALSE
  /\ csv_file = [exists |-> FALSE, rows |-> <<>>]
  /\ loaded = FALSE
  /\ translation = <<>> /\ debug_output = <<>> /\ result = <<>>
  /\ rpc = "none"

InitGrammar ==
  /\ NoThreads
  /\ NoTranslator /\ QuietConsole /\ NoRequest
  /\ base = "ENG_GRAMMAR"
  /\ sentences \in SentenceLists(GrammarPieces, MaxPieces)
  /\ grammar = <<>>
  /\ gpc = "call"

\* grammar = build_extended_grammar(base, sentences)
BuildExtendedGrammar ==
  /\ gpc = "call"
  /\ grammar' = build_extended_grammar(TemplateText(base), sentences)
  /\ gpc' = "done"
  /\ UNCHANGED <<base, sentences, tvars, iovars, rvars>>
  /\ UNCHANGED threads

NextGrammar == BuildExtendedGrammar

SpecGrammar == InitGrammar /\ [][NextGrammar]_vars

\* a capitalised word, a stoplist word, a connector, blank, a lower-case letter
NamePieces == << <<"K", "o">>,
     <<"I">>,
     <<"n", "e">>,
     <<" ">>,
     <<"x">> >>

\* the same run on inputs made of words and blanks only
InitNames ==
  /\ NoThreads
  /\ NoTranslator /\ QuietConsole /\ NoRequest
  /\ base = "ENG_GRAMMAR"
  /\ sentences \in SentenceLists(NamePieces, MaxPieces)
  /\ grammar = <<>>
  /\ gpc = "call"

SpecNames == InitNames /\ [][NextGrammar]_vars

\* the same run on a template that has no line starting with PROPN ->
InitTemplate ==
  /\ NoThreads
  /\ NoTranslator /\ QuietConsole /\ NoRequest
  /\ base \in {"NO_PROPN", "PROPN_INSIDE"}
  /\ sentences \in SentenceLists(NamePieces, MaxPieces)
  /\ grammar = <<>>
  /\ gpc = "call"

SpecTemplate == InitTemplate /\ [][NextGrammar]_vars

(***************************************************************************)
(* The TwiTranslator: construction, then one call of translate             *)
(***************************************************************************)

\* the longest string the engine returns, in pieces
MaxRaw == 1

TranslatorPieces == << <<"I">>, <<" ">>, <<"H", "i">> >>

RawPieces == << <<"I">>, <<" ">>, <<"h", "i">> >>

\* the word maps and phrase maps a TwiTranslator is built with
DictChoices ==
  { << <<>>, <<>> >>,
    << (<<"h", "i">> :> <<"w", "o">>), <<>> >>,
    << (<<"i">> :> <<>>), (<<"h", "i">> :> <<"A", "g", "o", "o">>) >>,
    << <<>>, (<<"h", "i">> :> <<"A", "g", "o", "o">>) >> }

\* everything the engine's translate can do with a sentence
EngineOutcomes ==
  { EngineOutcome("strings", r) : r \in Strings(RawPieces, MaxRaw) }
    \cup { EngineOutcome(k, <<>>) : k \in {"empty_list", "empty_string", "raises"} }

InitTranslator ==
  /\ NoThreads
  /\ base = "ENG_GRAMMAR"
  /\ sentences \in SentenceLists(TranslatorPieces, MaxPieces)
  /\ grammar = <<>>
  /\ gpc = "idle"
  /\ \E c \in DictChoices : d_words = c[1] /\ p_phrases = c[2]
  /\ phrases = <<>> /\ src_to_tgt_dictionary = <<>>
  /\ out = <<>> /\ engine_log = <<>>
  /\ tpc = "new"
  /\ QuietConsole /\ NoRequest

\* TwiTranslator(sentences, src_grammar=base, src_to_tgt_dictionary=d,
\* phrases=p), the engine's Translator(...) returning
Construct ==
  /\ tpc = "new"
  /\ phrases' = p_phrases
  /\ src_to_tgt_dictionary' = d_words
  /\ grammar' = build_extended_grammar(TemplateText(base), sentences)
  /\ tpc' = "constructed"
  /\ UNCHANGED <<base, sentences, gpc, d_words, p_phrases, out, engine_log,
                 iovars, rvars>>
  /\ UNCHANGED threads

\* the same with the engine's Translator(...) raising: no object results
ConstructRaises ==
  /\ tpc = "new"
  /\ grammar' = build_extended_grammar(TemplateText(base), sentences)
  /\ tpc' = "ctor_raised"
  /\ UNCHANGED <<base, sentences, gpc, d_words, p_phrases, phrases,
                 src_to_tgt_dictionary, out, engine_log, iovars, rvars>>
  /\ UNCHANGED threads

\* translate(sentences) is called: out = []
TranslateCall ==
  /\ tpc = "constructed"
  /\ out' = <<>>
  /\ tpc' = "loop"
  /\ UNCHANGED <<gvars, d_words, p_phrases, phrases, src_to_tgt_dictionary,
                 engine_log, iovars, rvars>>
  /\ UNCHANGED threads

\* the sentence the loop of translate is at
CurrentSentence == sentences[Len(out) + 1]

\* a pass of the loop for a known phrase
PhraseHit ==
  /\ tpc = "loop" /\ Len(out) < Len(sentences)
  /\ PhraseKey(CurrentSentence) \in DOMAIN phrases
  /\ out' = Append(out, phrases[PhraseKey(CurrentSentence)])
  /\ UNCHANGED <<gvars, d_words, p_phrases, phrases, src_to_tgt_dictionary,
                 engine_log, tpc, iovars, rvars>>
  /\ UNCHANGED threads

\* the line printed by the except branch of translate
TranslationErrorLine(s) == [text |-> "Translation error for", about |-> s]

\* print(...) of some lines: they go where sys.stdout points
Emit(lines) ==
  IF sys_stdout = "f"
    THEN f' = f \o lines /\ console' = console
    ELSE console' = console \o lines /\ f' = f

\* a pass of the loop that calls the engine
EnginePass ==
  /\ tpc = "loop" /\ Len(out) < Len(sentences)
  /\ PhraseKey(CurrentSentence) \notin DOMAIN phrases
  /\ \E o \in EngineOutcomes :
       /\ engine_log' = Append(engine_log,
                               [idx |-> Len(out) + 1, sentence |-> CurrentSentence,
                                kind |-> o.kind, first |-> o.first])
       /\ out' = Append(out, TranslationOf(CurrentSentence, o,
                                           src_to_tgt_dictionary, phrases))
       /\ Emit(IF o.kind = "raises"
                 THEN <<TranslationErrorLine(CurrentSentence)>>
                 ELSE <<>>)
  /\ UNCHANGED <<gvars, d_words, p_phrases, phrases, src_to_tgt_dictionary, tpc,
                 sys_stdout, rvars>>
  /\ UNCHANGED threads

\* return out
TranslateReturn ==
  /\ tpc = "loop" /\ Len(out) = Len(sentences)
  /\ tpc' = "returned"
  /\ UNCHANGED <<gvars, d_words, p_phrases, phrases, src_to_tgt_dictionary,
                 out, engine_log, iovars, rvars>>
  /\ UNCHANGED threads

NextTranslator ==
  \/ Construct
  \/ ConstructRaises
  \/ TranslateCall
  \/ PhraseHit
  \/ EnginePass
  \/ TranslateReturn

SpecTranslator == InitTranslator /\ [][NextTranslator]_vars

(***************************************************************************)
(* load_dict                                                               *)
(***************************************************************************)

\* Python's None, for a cell a short row does not fill
NoneVal == <<"None">>

\* a column the file's header does not have
AbsentVal == <<"absent">>

\* a row as csv.DictReader yields it
CsvRow(english, twi, type) ==
  [io_error |-> FALSE, english |-> english, twi |-> twi, type |-> type]

\* the place of a file where reading it raises
CsvReadError ==
  [io_error |-> TRUE, english |-> NoneVal, twi |-> NoneVal, type |-> NoneVal]

\* whether the body of the loop raises on row r: the read fails, r["english"]
\* or r["twi"] is missing or None, or the type cell is None
RowRaises(r) ==
  \/ r.io_error
  \/ r.english \in {NoneVal, AbsentVal}
  \/ r.twi \in {NoneVal, AbsentVal}
  \/ r.type = NoneVal

\* m[k] = v on a dict
Put(m, k, v) == [x \in DOMAIN m \cup {k} |-> IF x = k THEN v ELSE m[x]]

RECURSIVE LoadRows(_, _, _)
\* the loop over the rows, none of which raises
LoadRows(rows, dd, pp) ==
  IF rows = <<>> THEN [d |-> dd, p |-> pp]
  ELSE LET r   == Head(rows)
           e   == Strip(r.english)
           t   == Strip(r.twi)
           typ == Lower(IF r.type = AbsentVal THEN <<"w", "o", "r", "d">> ELSE r.type)
       IN IF typ = <<"p", "h", "r", "a", "s", "e">>
            THEN LoadRows(Tail(rows), dd, Put(pp, Lower(e), t))
            ELSE LoadRows(Tail(rows), Put(dd, Lower(e), t), pp)

CSV_FILE == <<"d", "i", "c", "t", ".", "c", "s", "v">>

\* load_dict returning what it had read when a row raises, instead of {}, {}
load_dict_KeepsRowsRead(file) ==
  IF ~file.exists
    THEN [d |-> <<>>, p |-> <<>>,
          printed |-> <<[text |-> "Warning: not found. Using empty dictionary.",
                         about |-> CSV_FILE]>>]
  ELSE LET bad  == { i \in DOMAIN file.rows : RowRaises(file.rows[i]) }
           good == IF bad = {} THEN file.rows
                   ELSE SubSeq(file.rows, 1,
                               (CHOOSE i \in bad : \A k \in bad : i <= k) - 1)
           maps == LoadRows(good, <<>>, <<>>)
       IN [d |-> maps.d, p |-> maps.p,
           printed |-> IF bad = {} THEN <<>>
                       ELSE <<[text |-> "Error loading dictionary", about |-> <<>>]>>]

\* load_dict(CSV_FILE) for a file in a given state: the two maps returned and
\* the lines printed
load_dict(file) ==
  IF ~file.exists
    THEN [d |-> <<>>, p |-> <<>>,
          printed |-> <<[text |-> "Warning: not found. Using empty dictionary.",
                         about |-> CSV_FILE]>>]
  ELSE IF \E i \in DOMAIN file.rows : RowRaises(file.rows[i])
    THEN [d |-> <<>>, p |-> <<>>,
          printed |-> <<[text |-> "Error loading dictionary", about |-> <<>>]>>]
  ELSE LET maps == LoadRows(file.rows, <<>>, <<>>)
       IN [d |-> maps.d, p |-> maps.p, printed |-> <<>>]

(***************************************************************************)
(* load_dict called on its own                                             *)
(***************************************************************************)

\* the longest dictionary file, in rows
MaxRows == 2

\* the rows a file is made of: word rows with and without a type column,
\* phrase rows in two spellings of the type, an upper-case key that meets a
\* lower-case one, a short row (its type cell None), a row of a file whose
\* header has no english column, and the place where reading fails
LoaderRows ==
  { CsvRow(<<"h", "i">>, <<"w", "o">>, AbsentVal),
    CsvRow(<<"H", "i", " ">>, <<" ", "y", "o">>, <<"w", "o", "r", "d">>),
    CsvRow(<<"h", "i">>, <<"A", "g", "o", "o">>, <<"p", "h", "r", "a", "s", "e">>),
    CsvRow(<<"G", "o">>, <<"k", "o">>, <<"P", "h", "r", "a", "s", "e">>),
    CsvRow(<<"g", "o">>, <<"k", "o">>, <<"n", "o", "u", "n">>),
    CsvRow(<<"h", "i">>, <<"w", "o">>, NoneVal),
    CsvRow(AbsentVal, <<"w", "o">>, AbsentVal),
    CsvReadError }

\* dict.csv absent, or present with at most MaxRows rows
LoaderFiles ==
  { [exists |-> FALSE, rows |-> <<>>] }
    \cup { [exists |-> TRUE, rows |-> rows] :
             rows \in UNION { [1..n -> LoaderRows] : n \in 0..MaxRows } }

InitLoader ==
  /\ NoThreads
  /\ base = "ENG_GRAMMAR" /\ sentences = <<>> /\ grammar = <<>> /\ gpc = "idle"
  /\ NoTranslator /\ QuietConsole
  /\ english_sentence = <<>> /\ show_details = FALSE
  /\ csv_file \in LoaderFiles
  /\ loaded = FALSE
  /\ translation = <<>> /\ debug_output = <<>> /\ result = <<>>
  /\ rpc = "none"

\* d, p = load_dict(CSV_FILE), outside any request
LoadDictCall ==
  /\ rpc = "none"
  /\ ~loaded
  /\ LET got == load_dict(csv_file)
     IN /\ d_words' = got.d
        /\ p_phrases' = got.p
        /\ Emit(got.printed)
  /\ loaded' = TRUE
  /\ UNCHANGED <<gvars, phrases, src_to_tgt_dictionary, out, engine_log, tpc,
                 sys_stdout, english_sentence, show_details, csv_file,
                 translation, debug_output, result, rpc>>
  /\ UNCHANGED threads

NextLoader == LoadDictCall

SpecLoader == InitLoader /\ [][NextLoader]_vars

(***************************************************************************)
(* translate_sentence                                                      *)
(***************************************************************************)

PleaseEnter == 
  << "P", "l", "e", "a", "s", "e", " ", "e", "n", "t", "e", "r", " ", "a",
     " ", "s", "e", "n", "t", "e", "n", "c", "e", "." >>

OnlyOneSentence == 
  << "E", "r", "r", "o", "r", ":", " ", "P", "l", "e", "a", "s", "e", " ",
     "e", "n", "t", "e", "r", " ", "o", "n", "l", "y", " ", "o", "n", "e",
     " ", "s", "e", "n", "t", "e", "n", "c", "e", " ", "a", "t", " ", "a",
     " ", "t", "i", "m", "e", "." >>

GrammarNotice == 
  << "N", "o", "t", "e", ":", " ", "T", "h", "e", " ", "s", "e", "n", "t",
     "e", "n", "c", "e", " ", "d", "o", "e", "s", "n", "'", "t", " ", "f",
     "u", "l", "l", "y", " ", "m", "a", "t", "c", "h", " ", "t", "h", "e",
     " ", "g", "r", "a", "m", "m", "a", "r", " ", "r", "u", "l", "e", "s",
     ".", " ", "S", "o", "m", "e", " ", "w", "o", "r", "d", "s", " ", "m",
     "i", "g", "h", "t", " ", "n", "o", "t", " ", "b", "e", " ", "t", "r",
     "a", "n", "s", "l", "a", "t", "e", "d", "." >>

TranslationErrorPrefix == 
  << "T", "r", "a", "n", "s", "l", "a", "t", "i", "o", "n", " ", "e", "r",
     "r", "o", "r" >>

\* the characters of the class [.!?]
Terminators == {".", "!", "?"}

RECURSIVE SkipTerminators(_, _)
\* the end of the match of [.!?]+ that starts at i
SkipTerminators(s, i) ==
  IF i <= Len(s) /\ s[i] \in Terminators THEN SkipTerminators(s, i + 1) ELSE i

RECURSIVE ReSplitFrom(_, _, _)
ReSplitFrom(s, i, cur) ==
  IF i > Len(s) THEN <<cur>>
  ELSE IF s[i] \in Terminators
    THEN <<cur>> \o ReSplitFrom(s, SkipTerminators(s, i), <<>>)
    ELSE ReSplitFrom(s, i + 1, Append(cur, s[i]))

\* re.split(r'[.!?]+', s)
ReSplit(s) == ReSplitFrom(s, 1, <<>>)

RECURSIVE StrippedNonEmpty(_)
\* [x.strip() for x in segs if x.strip()]
StrippedNonEmpty(segs) ==
  IF segs = <<>> THEN <<>>
  ELSE (IF Strip(Head(segs)) # <<>> THEN <<Strip(Head(segs))>> ELSE <<>>)
         \o StrippedNonEmpty(Tail(segs))

\* the list `sentences` of the input validation
SentenceSegments(s) == StrippedNonEmpty(ReSplit(s))

\* not english_sentence.strip()
IsBlankInput(s) == Strip(s) = <<>>

\* the test as it would be with 2 for 1
IsMultiSentence_MoreThanTwo(s) == Len(SentenceSegments(s)) > 2

\* len(sentences) > 1
IsMultiSentence(s) == Len(SentenceSegments(s)) > 1

RECURSIVE StripChars(_, _)
\* word.strip(chars)
StripChars(word, chars) ==
  IF word # <<>> /\ word[1] \in chars THEN StripChars(Tail(word), chars)
  ELSE IF word # <<>> /\ word[Len(word)] \in chars
    THEN StripChars(SubSeq(word, 1, Len(word) - 1), chars)
    ELSE word

Line(text, about) == [text |-> text, about |-> about]

\* the lines printed in the with block before TwiTranslator is created
PreludeLines(s, dd, pp) ==
  << Line("=== TRANSLATION PROCESS FOR", s),
     Line("1. Loading dictionary...", <<>>),
     Line("- Words", Decimal(Cardinality(DOMAIN dd))),
     Line("- Phrases", Decimal(Cardinality(DOMAIN pp))),
     Line("2. Creating translator with extended grammar...", <<>>) >>

RECURSIVE LookupLines(_, _, _)
\* the entries of words_used, one line each
LookupLines(words, dd, pp) ==
  IF words = <<>> THEN <<>>
  ELSE LET clean_word == StripChars(Head(words), {".", ",", "!", "?", ";", ":"})
       IN (IF clean_word \in DOMAIN dd
             THEN <<Line("- lookup", Quote(clean_word) \o <<" ", "-", ">", " ">> \o Quote(dd[clean_word]))>>
           ELSE IF clean_word \in DOMAIN pp
             THEN <<Line("- lookup (phrase)",
                         Quote(clean_word) \o <<" ", "-", ">", " ">> \o Quote(pp[clean_word]))>>
           ELSE <<>>)
            \o LookupLines(Tail(words), dd, pp)

\* the lines printed in the with block after the translation
ReportLines(s, res, dd, pp) ==
  << Line("4. Results:", <<>>),
     Line("Input", s),
     Line("Output", res),
     Line("5. Grammar Information:", <<>>),
     Line("- Source grammar rules", <<>>),
     Line("- Transformation rules", <<>>),
     Line("6. Dictionary Lookups:", <<>>) >>
    \o (IF LookupLines(StrSplit(Lower(s)), dd, pp) # <<>>
          THEN LookupLines(StrSplit(Lower(s)), dd, pp)
          ELSE <<Line("No direct dictionary matches found", <<>>)>>)
    \o <<Line("==================================================", <<>>)>>

\* the test that replaces an echo by the notice
IsUnsupported(trans, s, pp) ==
  /\ Lower(trans) = Lower(s)
  /\ Lower(s) \notin DOMAIN pp
  /\ ~StartsWith(trans, TranslationErrorPrefix)

\* the messages of the exceptions the engine's constructor raises
ExceptionTexts == { <<"b", "o", "o", "m">> }

RequestPieces == << <<"H", "i">>,
     <<" ">>,
     <<".">>,
     <<"!">>,
     <<"T", "r", "a", "n", "s", "l", "a", "t", "i", "o", "n", " ", "e", "r", "r", "o", "r">> >>

\* the states of dict.csv a request finds
CsvChoices ==
  { [exists |-> FALSE, rows |-> <<>>],
    [exists |-> TRUE, rows |-> <<CsvRow(<<"h", "i">>, <<"w", "o">>, AbsentVal)>>],
    [exists |-> TRUE, rows |-> <<CsvRow(<<"H", "i", " ">>, <<"A", "g", "o", "o">>, <<"P", "h", "r", "a", "s", "e">>)>>],
    [exists |-> TRUE, rows |-> <<CsvRow(<<"h", "i">>, <<"w", "o">>, <<"w", "o", "r", "d">>), CsvReadError>>] }

InitRequest ==
  /\ NoThreads
  /\ base = "ENG_GRAMMAR" /\ sentences = <<>> /\ grammar = <<>> /\ gpc = "idle"
  /\ NoTranslator /\ QuietConsole
  /\ english_sentence \in Strings(RequestPieces, MaxPieces)
  /\ show_details \in BOOLEAN
  /\ csv_file \in CsvChoices
  /\ loaded = FALSE
  /\ translation = <<>> /\ debug_output = <<>> /\ result = <<>>
  /\ rpc = "start"

\* the input is empty or blank: return "Please enter a sentence.", ""
RejectBlank ==
  /\ rpc = "start"
  /\ IsBlankInput(english_sentence)
  /\ result' = <<PleaseEnter, <<>>>>
  /\ rpc' = "returned"
  /\ UNCHANGED <<gvars, tvars, iovars, english_sentence, show_details, csv_file,
                 loaded, translation, debug_output>>
  /\ UNCHANGED threads

\* more than one sentence: return the error, ""
RejectMulti ==
  /\ rpc = "start"
  /\ ~IsBlankInput(english_sentence)
  /\ IsMultiSentence(english_sentence)
  /\ result' = <<OnlyOneSentence, <<>>>>
  /\ rpc' = "returned"
  /\ UNCHANGED <<gvars, tvars, iovars, english_sentence, show_details, csv_file,
                 loaded, translation, debug_output>>
  /\ UNCHANGED threads

\* d, p = load_dict(CSV_FILE); debug_output = ""; translation = ""
LoadDict ==
  /\ rpc = "start"
  /\ ~IsBlankInput(english_sentence)
  /\ ~IsMultiSentence(english_sentence)
  /\ LET got == load_dict(csv_file)
     IN /\ d_words' = got.d
        /\ p_phrases' = got.p
        /\ Emit(got.printed)
  /\ loaded' = TRUE
  /\ debug_output' = <<>>
  /\ translation' = <<>>
  /\ rpc' = "loaded"
  /\ UNCHANGED <<gvars, phrases, src_to_tgt_dictionary, out, engine_log, tpc,
                 sys_stdout, english_sentence, show_details, csv_file, result>>
  /\ UNCHANGED threads

\* the lines print adds to the StringIO when diagnostics are wanted
Captured(lines) == IF show_details THEN lines ELSE <<>>

\* the try block up to t = TwiTranslator(...), with the StringIO and the
\* redirection when show_details; when the engine's constructor raises, the
\* with block is left and the except branch runs
CreateTranslator ==
  /\ rpc = "loaded"
  /\ sentences' = <<english_sentence>>
  /\ grammar' = build_extended_grammar(TemplateText(base), <<english_sentence>>)
  /\ \/ /\ phrases' = p_phrases
        /\ src_to_tgt_dictionary' = d_words
        /\ tpc' = "constructed"
        /\ f' = Captured(PreludeLines(english_sentence, d_words, p_phrases))
        /\ sys_stdout' = IF show_details THEN "f" ELSE "console"
        /\ rpc' = "created"
        /\ UNCHANGED <<console, translation, debug_output>>
     \/ \E e \in ExceptionTexts :
          /\ tpc' = "ctor_raised"
          /\ f' = Captured(PreludeLines(english_sentence, d_words, p_phrases))
          /\ sys_stdout' = "console"
          /\ console' = Append(console, Line("Error during translation", e))
          /\ translation' = TranslationErrorPrefix \o <<":", " ">> \o e
          /\ debug_output' =
               debug_output \o Captured(<<Line("Error during translation", e)>>)
          /\ rpc' = "check"
          /\ UNCHANGED <<phrases, src_to_tgt_dictionary>>
  /\ UNCHANGED <<base, gpc, d_words, p_phrases, out, engine_log,
                 english_sentence, show_details, csv_file, loaded, result>>
  /\ UNCHANGED threads

\* what translate([english_sentence])[0] is and prints, the engine doing o
TranslateOne(o) ==
  IF PhraseKey(english_sentence) \in DOMAIN phrases
    THEN [tw |-> phrases[PhraseKey(english_sentence)], calls |-> <<>>,
          printed |-> <<>>]
    ELSE [tw |-> TranslationOf(english_sentence, o, src_to_tgt_dictionary, phrases),
          calls |-> <<[idx |-> 1, sentence |-> english_sentence,
                       kind |-> o.kind, first |-> o.first]>>,
          printed |-> IF o.kind = "raises"
                        THEN <<TranslationErrorLine(english_sentence)>>
                        ELSE <<>>]

\* the rest of the try block: result = t.translate([english_sentence])[0],
\* the report, the end of the redirection, debug_output = f.getvalue()
TranslateAndReport ==
  /\ rpc = "created"
  /\ \E o \in EngineOutcomes :
       LET got == TranslateOne(o)
           lines == Captured(<<Line("3. Translating sentence...", <<>>)>>)
                      \o got.printed
                      \o Captured(ReportLines(english_sentence, got.tw,
                                              d_words, p_phrases))
       IN /\ out' = <<got.tw>>
          /\ engine_log' = engine_log \o got.calls
          /\ f' = IF sys_stdout = "f" THEN f \o lines ELSE f
          /\ console' = IF sys_stdout = "f" THEN console ELSE console \o lines
          /\ debug_output' = IF show_details THEN f' ELSE debug_output
          /\ translation' = got.tw
  /\ sys_stdout' = "console"
  /\ tpc' = "returned"
  /\ rpc' = "check"
  /\ UNCHANGED <<gvars, d_words, p_phrases, phrases, src_to_tgt_dictionary,
                 english_sentence, show_details, csv_file, loaded, result>>
  /\ UNCHANGED threads

\* the test for an unsupported sentence and the return
Finish ==
  /\ rpc = "check"
  /\ translation' = IF IsUnsupported(translation, english_sentence, p_phrases)
                      THEN GrammarNotice
                      ELSE translation
  /\ result' = <<translation', debug_output>>
  /\ rpc' = "returned"
  /\ UNCHANGED <<gvars, tvars, iovars, english_sentence, show_details, csv_file,
                 loaded, debug_output>>
  /\ UNCHANGED threads

NextRequest ==
  \/ RejectBlank
  \/ RejectMulti
  \/ LoadDict
  \/ CreateTranslator
  \/ TranslateAndReport
  \/ Finish

SpecRequest == InitRequest /\ [][NextRequest]_vars

(***************************************************************************)
(* Two requests of the UI running translate_sentence as threads.  Each     *)
(* thread has its own locals; sys.stdout, which redirect_stdout assigns    *)
(* and print reads, belongs to the process.                                *)
(***************************************************************************)

\* the requests in flight
Requests == {1, 2}

\* the StringIO of a request, as a target of print
FileOf(i) == IF i = 1 THEN "f1" ELSE "f2"

\* a line printed by request i
LineBy(i, text) == [by |-> i, text |-> text]

\* the locals of a request that has not started
NewThread(show) ==
  [pc |-> "start", show |-> show, f |-> <<>>, old |-> "console", debug |-> <<>>]

\* the StringIOs after print(...) of the lines: they go where sys.stdout
\* points at that moment
Printed(th, target, lines) ==
  [j \in Requests |->
     IF target = FileOf(j) THEN [th[j] EXCEPT !.f = @ \o lines] ELSE th[j]]

\* the console after the same print
ConsoleAfter(target, lines) ==
  IF target = "console" THEN console \o lines ELSE console

\* everything but the threads, the console and sys.stdout
restvars == <<gvars, tvars, f, rvars>>

InitThreads ==
  /\ base = "ENG_GRAMMAR" /\ sentences = <<>> /\ grammar = <<>> /\ gpc = "idle"
  /\ NoTranslator /\ QuietConsole
  /\ english_sentence = <<>> /\ show_details = FALSE
  /\ csv_file \in { [exists |-> FALSE, rows |-> <<>>],
                    [exists |-> TRUE, rows |-> <<>>] }
  /\ loaded = FALSE
  /\ translation = <<>> /\ debug_output = <<>> /\ result = <<>>
  /\ rpc = "none"
  /\ threads \in { [i \in Requests |-> NewThread(IF i = 1 THEN s1 ELSE s2)] :
                     s1 \in BOOLEAN, s2 \in BOOLEAN }

\* d, p = load_dict(CSV_FILE), which prints its warning when the file is
\* missing
ThreadLoadDict(i) ==
  /\ threads[i].pc = "start"
  /\ LET lines == IF csv_file.exists THEN <<>>
                  ELSE <<LineBy(i, "Warning: not found. Using empty dictionary.")>>
         next  == IF threads[i].show THEN "enter" ELSE "create"
     IN /\ threads' = Printed([threads EXCEPT ![i].pc = next], sys_stdout, lines)
        /\ console' = ConsoleAfter(sys_stdout, lines)
  /\ UNCHANGED <<sys_stdout, restvars>>

\* f = io.StringIO(); redirect_stdout(f).__enter__ keeps the current sys.stdout
ThreadEnterSave(i) ==
  /\ threads[i].pc = "enter"
  /\ threads' = [threads EXCEPT ![i].pc = "enter_set", ![i].old = sys_stdout]
  /\ UNCHANGED <<console, sys_stdout, restvars>>

\* ... and then makes f the process's sys.stdout
ThreadEnterSet(i) ==
  /\ threads[i].pc = "enter_set"
  /\ sys_stdout' = FileOf(i)
  /\ threads' = [threads EXCEPT ![i].pc = "prelude"]
  /\ UNCHANGED <<console, restvars>>

\* the prints before the translator is created
ThreadPrelude(i) ==
  /\ threads[i].pc = "prelude"
  /\ LET lines == <<LineBy(i, "=== TRANSLATION PROCESS ===")>>
     IN /\ threads' = Printed([threads EXCEPT ![i].pc = "create"], sys_stdout, lines)
        /\ console' = ConsoleAfter(sys_stdout, lines)
  /\ UNCHANGED <<sys_stdout, restvars>>

\* t = TwiTranslator(...), which the engine's constructor can make raise
ThreadCreate(i) ==
  /\ threads[i].pc = "create"
  /\ \/ threads' = [threads EXCEPT ![i].pc = "translate"]
     \/ threads' = [threads EXCEPT
                      ![i].pc = IF threads[i].show THEN "exit_raised" ELSE "except"]
  /\ UNCHANGED <<console, sys_stdout, restvars>>

\* t.translate([english_sentence])[0], which prints when the engine raises
ThreadTranslate(i) ==
  /\ threads[i].pc = "translate"
  /\ \E raises \in BOOLEAN :
       LET lines == IF raises THEN <<LineBy(i, "Translation error for")>> ELSE <<>>
           next  == IF threads[i].show THEN "report" ELSE "returned"
       IN /\ threads' = Printed([threads EXCEPT ![i].pc = next], sys_stdout, lines)
          /\ console' = ConsoleAfter(sys_stdout, lines)
  /\ UNCHANGED <<sys_stdout, restvars>>

\* the prints of the results, the grammar information and the lookups
ThreadReport(i) ==
  /\ threads[i].pc = "report"
  /\ LET lines == <<LineBy(i, "4. Results:")>>
     IN /\ threads' = Printed([threads EXCEPT ![i].pc = "exit"], sys_stdout, lines)
        /\ console' = ConsoleAfter(sys_stdout, lines)
  /\ UNCHANGED <<sys_stdout, restvars>>

\* redirect_stdout(f).__exit__, at the end of the block or on an exception:
\* sys.stdout becomes what __enter__ kept
ThreadExit(i) ==
  /\ threads[i].pc \in {"exit", "exit_raised"}
  /\ sys_stdout' = threads[i].old
  /\ threads' = [threads EXCEPT
                   ![i].pc = IF threads[i].pc = "exit" THEN "getvalue" ELSE "except"]
  /\ UNCHANGED <<console, restvars>>

\* debug_output = f.getvalue(), and the return
ThreadGetValue(i) ==
  /\ threads[i].pc = "getvalue"
  /\ threads' = [threads EXCEPT ![i].pc = "returned", ![i].debug = threads[i].f]
  /\ UNCHANGED <<console, sys_stdout, restvars>>

\* the except branch: print(error_msg), debug_output += error_msg when
\* show_details, and the return
ThreadExcept(i) ==
  /\ threads[i].pc = "except"
  /\ LET lines == <<LineBy(i, "Error during translation")>>
         mine  == [threads EXCEPT
                     ![i].pc = "returned",
                     ![i].debug = IF threads[i].show THEN @ \o lines ELSE @]
     IN /\ threads' = Printed(mine, sys_stdout, lines)
        /\ console' = ConsoleAfter(sys_stdout, lines)
  /\ UNCHANGED <<sys_stdout, restvars>>

NextThreads ==
  \E i \in Requests :
    \/ ThreadLoadDict(i)
    \/ ThreadEnterSave(i)
    \/ ThreadEnterSet(i)
    \/ ThreadPrelude(i)
    \/ ThreadCreate(i)
    \/ ThreadTranslate(i)
    \/ ThreadReport(i)
    \/ ThreadExit(i)
    \/ ThreadGetValue(i)
    \/ ThreadExcept(i)

SpecThreads == InitThreads /\ [][NextThreads]_vars

(***************************************************************************)
(* Reading a grammar text back: its productions                            *)
(***************************************************************************)

\* the alternatives of the PROPN production of a grammar text
PropnAlternativesOf(g) ==
  LET lines == SplitBy(g, <<"\n">>)
      i     == PropnLine(lines)
  IN IF i = 0 THEN {}
     ELSE Range(SplitBy(SubSeq(lines[i], Len(<<"P", "R", "O", "P", "N", " ", "-", ">", " ">>) + 1, Len(lines[i])),
                        <<" ", "|", " ">>))

\* the auxiliary productions of a grammar text: its lines MWP_j -> ..., each
\* as (line, name, right side)
MwpProductionsOf(g) ==
  LET lines == SplitBy(g, <<"\n">>)
  IN { LET parts == SplitBy(lines[i], <<" ", "-", ">", " ">>)
       IN [line |-> i, name |-> parts[1], rhs |-> SplitBy(parts[2], <<" ">>)] :
         i \in { k \in DOMAIN lines : StartsWith(lines[k], <<"M", "W", "P", "_">>) } }

\* every whitespace-delimited token of the input sentences
InputTokens == UNION { Range(StrSplit(sentences[i])) : i \in DOMAIN sentences }

\* the exclusion list of the Grammar Extender's contract
ExclusionList == { <<"I">>, <<"T", "h", "e">>, <<"A">>, <<"A", "n">> }

\* a capitalised word: an upper-case letter, then lower-case letters
IsCapWord(w) ==
  /\ w # <<>>
  /\ IsUpperChar(w[1])
  /\ \A i \in 2..Len(w) : IsLowerChar(w[i])

ConnectorWords == { <<"n", "e">>, <<"a", "n", "d">>, <<"o", "f">>, <<"d", "e">>, <<"b", "i", "n">> }

\* toks[a..b] starts and ends with a capitalised word and holds nothing but
\* capitalised words and connectors
IsNameRun(toks, a, b) ==
  /\ a < b
  /\ IsCapWord(toks[a]) /\ IsCapWord(toks[b])
  /\ \A k \in a..b : IsCapWord(toks[k]) \/ toks[k] \in ConnectorWords

\* the maximal runs of two or more capitalised tokens of a sentence
MaximalRuns(s) ==
  LET toks == StrSplit(s)
  IN { SubSeq(toks, r[1], r[2]) :
         r \in { x \in (DOMAIN toks) \X (DOMAIN toks) :
                   /\ IsNameRun(toks, x[1], x[2])
                   /\ \A y \in (DOMAIN toks) \X (DOMAIN toks) :
                        (y[1] <= x[1] /\ x[2] <= y[2] /\ IsNameRun(toks, y[1], y[2]))
                          => y = x } }

InputRuns == UNION { MaximalRuns(sentences[i]) : i \in DOMAIN sentences }

QuoteAll(toks) == [k \in 1..Len(toks) |-> Quote(toks[k])]

(***************************************************************************)
(* The claims about the grammar extender                                   *)
(***************************************************************************)

\* C5: in the grammar returned for ENG_GRAMMAR, every input token that starts
\* with a capital letter and is none of I, The, A, An is a quoted alternative
\* of PROPN, and none of I, The, A, An is one.
C5_SingleProperNouns ==
  gpc = "done" =>
    LET alts == PropnAlternativesOf(grammar)
    IN /\ \A w \in InputTokens :
            (IsUpperChar(w[1]) /\ w \notin ExclusionList) => Quote(w) \in alts
       /\ \A w \in ExclusionList : Quote(w) \notin alts

\* C5's case: the grammar was built for an input holding a capitalised token
\* to add and a token of the exclusion list
C5_Witness ==
  /\ gpc = "done"
  /\ \E w \in InputTokens : IsUpperChar(w[1]) /\ w \notin ExclusionList
  /\ InputTokens \cap ExclusionList # {}

\* C6: every maximal run of two or more capitalised tokens has exactly one
\* auxiliary production MWP_j spelling the run, listed under PROPN, and every
\* auxiliary production spells such a run.
C6_MultiwordRuns ==
  gpc = "done" =>
    LET alts == PropnAlternativesOf(grammar)
        mwps == MwpProductionsOf(grammar)
        runs == InputRuns
    IN /\ \A run \in runs :
            /\ Cardinality({ m \in mwps : m.rhs = QuoteAll(run) }) = 1
            /\ \A m \in mwps : m.rhs = QuoteAll(run) => m.name \in alts
       /\ \A m \in mwps : \E run \in runs : m.rhs = QuoteAll(run)

(***************************************************************************)
(* The claims about TwiTranslator                                          *)
(***************************************************************************)

\* the passes of the loop of translate made so far
Passes == 1..Len(out)

\* C1: a sentence whose lower-cased text is a key of the phrase map gets
\* exactly the mapped phrase as its output, and the engine's translate is not
\* called for it.
C1_PhraseShortCircuit ==
  \A i \in Passes :
    Lower(sentences[i]) \in DOMAIN p_phrases =>
      /\ out[i] = p_phrases[Lower(sentences[i])]
      /\ \A k \in DOMAIN engine_log : engine_log[k].idx # i

\* C1's case: translate returned for a list holding a phrase written with a
\* capital letter, and the engine was called for another sentence of it
C1_Witness ==
  /\ tpc = "returned"
  /\ engine_log # <<>>
  /\ \E i \in Passes :
       /\ Lower(sentences[i]) \in DOMAIN p_phrases
       /\ Lower(sentences[i]) # sentences[i]

\* C2: whatever the engine does, translate returns one output per input
\* sentence, in order, none of them empty (translate has no raising exit:
\* every state of the loop leads to the return).
C2_OneNonEmptyOutputEach ==
  tpc = "returned" =>
    /\ Len(out) = Len(sentences)
    /\ \A i \in Passes : out[i] # <<>>

\* the word the fallback contract puts for a token
ContractWord(word) ==
  IF Lower(word) \in DOMAIN d_words THEN d_words[Lower(word)]
  ELSE IF Lower(word) \in DOMAIN p_phrases THEN p_phrases[Lower(word)]
  ELSE word

\* C3: when the engine raises for a sentence that is no phrase, the output is
\* a non-empty string made token by token: the mapped value for a token of
\* the word map or phrase map, the token itself, unchanged, for any other.
C3_FallbackTokenByToken ==
  \A k \in DOMAIN engine_log :
    engine_log[k].kind = "raises" =>
      LET words == StrSplit(engine_log[k].sentence)
      IN /\ out[engine_log[k].idx] # <<>>
         /\ out[engine_log[k].idx] =
              Join(<<" ">>, [j \in DOMAIN words |-> ContractWord(words[j])])

\* the tokens the pronoun rule leaves of a raw output: Me for each token I,
\* every other token as it was, but for the capital put on the first letter
\* of the whole string
PronounRuleTokens(raw) ==
  LET toks == StrSplit(raw)
      fixed == [j \in DOMAIN toks |-> IF toks[j] = <<"I">> THEN <<"M", "e">> ELSE toks[j]]
  IN IF raw # <<>> /\ ~IsSpace(raw[1])
       THEN [fixed EXCEPT ![1] = Capitalize(fixed[1])]
       ELSE fixed

\* C4: in the final result for a raw output of the engine every standalone
\* token I has become Me, alone in the output or not, and no other token was
\* rewritten.
C4_StandalonePronoun ==
  \A k \in DOMAIN engine_log :
    engine_log[k].kind = "strings" =>
      StrSplit(out[engine_log[k].idx]) = PronounRuleTokens(engine_log[k].first)

\* C7: once the TwiTranslator is constructed, its word dictionary maps every
\* multi-word name found in the sentences to itself.
C7_NamesMapToThemselves ==
  tpc = "constructed" =>
    \A run \in MultiwordNameSet(sentences) :
      LET name == Join(<<" ">>, run)
      IN \/ /\ name \in DOMAIN src_to_tgt_dictionary
            /\ src_to_tgt_dictionary[name] = name
         \/ /\ Lower(name) \in DOMAIN src_to_tgt_dictionary
            /\ src_to_tgt_dictionary[Lower(name)] = name

(***************************************************************************)
(* The claims about translate_sentence                                     *)
(***************************************************************************)

\* an input of whitespace only, the empty one included
OnlyWhitespace(s) == \A i \in DOMAIN s : IsSpace(s[i])

\* the characters of s that are neither whitespace nor one of . ! ?
ContentAt(s) == { i \in DOMAIN s : ~IsSpace(s[i]) /\ s[i] \notin {".", "!", "?"} }

\* how many of the pieces that . ! ? cut s into hold more than whitespace:
\* one for each first such character after a cut
NonEmptySegments(s) ==
  Cardinality({ i \in ContentAt(s) :
                  \A j \in ContentAt(s) :
                    j < i => \E k \in (j + 1)..(i - 1) : s[k] \in {".", "!", "?"} })

\* C8: the loader and the translator are used only for an input that is not
\* blank and has at most one non-empty segment; a blank input returns
\* ("Please enter a sentence.", "") and an input of several segments the
\* only-one-sentence error with no diagnostics, neither loading the
\* dictionary nor creating a translator, whatever show_details is.
C8_ValidationGuardsTheCalls ==
  /\ (loaded \/ tpc # "none") =>
       (~OnlyWhitespace(english_sentence) /\ NonEmptySegments(english_sentence) <= 1)
  /\ (rpc = "returned" /\ OnlyWhitespace(english_sentence)) =>
       (result = <<PleaseEnter, <<>>>> /\ ~loaded /\ tpc = "none")
  /\ (rpc = "returned" /\ NonEmptySegments(english_sentence) > 1) =>
       (result = <<OnlyOneSentence, <<>>>> /\ ~loaded /\ tpc = "none")

\* C8's case: a request for diagnostics with two sentences was turned down
C8_Witness ==
  /\ rpc = "returned"
  /\ show_details
  /\ NonEmptySegments(english_sentence) > 1
  /\ ~loaded

\* the texts load_dict and TwiTranslator print
LoaderAndWrapperTexts ==
  { "Warning: not found. Using empty dictionary.",
    "Error loading dictionary",
    "Translation error for" }

\* C9: with diagnostics requested, every line printed by load_dict and by the
\* TwiTranslator during the request is in the diagnostics returned; with none
\* requested the diagnostics are empty.
C9_DiagnosticsCaptureEverything ==
  rpc = "returned" =>
    IF show_details
      THEN \A line \in Range(console) \cup Range(f) :
             line.text \in LoaderAndWrapperTexts => line \in Range(result[2])
      ELSE result[2] = <<>>

\* C10: for a validated input whose translation equals it but for case and
\* which is no phrase, the notice is returned, not the echo.
C10_EchoBecomesNotice ==
  (/\ rpc = "returned"
   /\ tpc = "returned"
   /\ Lower(out[1]) = Lower(english_sentence)
   /\ Lower(english_sentence) \notin DOMAIN p_phrases)
    => result[1] = GrammarNotice

(***************************************************************************)
(* load_dict: what it returns                                              *)
(***************************************************************************)

\* whether a row's type, as the loader reads it (lower-cased), is phrase
TypeIsPhrase(r) ==
  r.type # AbsentVal /\ Lower(r.type) = <<"p", "h", "r", "a", "s", "e">>

\* the map the rows of one kind make: the lower-cased stripped english cell to
\* the stripped twi cell of the last such row
RowsAsMap(rows, phraseKind) ==
  LET mine == { i \in DOMAIN rows : TypeIsPhrase(rows[i]) = phraseKind }
      keys == { Lower(Strip(rows[i].english)) : i \in mine }
  IN [k \in keys |->
        LET last == CHOOSE i \in mine :
                      /\ Lower(Strip(rows[i].english)) = k
                      /\ \A j \in mine :
                           Lower(Strip(rows[j].english)) = k => j <= i
        IN Strip(rows[last].twi)]

\* whether load_dict meets an error on the file
FileFails(file) ==
  \/ ~file.exists
  \/ \E i \in DOMAIN file.rows : RowRaises(file.rows[i])

\* C11: load_dict always returns two maps to its caller.  When dict.csv is
\* absent, or a row is malformed or the read fails at any row, both maps are
\* empty, whatever was read before.  Otherwise every key is lower case, the
\* phrase map holds exactly the rows whose type (read without regard to case)
\* is phrase, and the word map holds all the other rows.
C11_LoaderNeverFails ==
  loaded =>
    /\ \A k \in DOMAIN d_words \cup DOMAIN p_phrases : k \in Seq(Range(Printable))
    /\ FileFails(csv_file) => d_words = <<>> /\ p_phrases = <<>>
    /\ ~FileFails(csv_file) =>
         /\ p_phrases = RowsAsMap(csv_file.rows, TRUE)
         /\ d_words = RowsAsMap(csv_file.rows, FALSE)
         /\ \A k \in DOMAIN d_words \cup DOMAIN p_phrases : Lower(k) = k

\* load_dict has returned for a file whose second row cannot be read after a
\* first row that could
C11_Witness ==
  /\ loaded
  /\ rpc = "none"
  /\ csv_file.exists
  /\ Len(csv_file.rows) = 2
  /\ ~RowRaises(csv_file.rows[1])
  /\ RowRaises(csv_file.rows[2])
  /\ d_words = <<>> /\ p_phrases = <<>>
  /\ console # <<>>

(***************************************************************************)
(* build_extended_grammar on a template without the PROPN line             *)
(***************************************************************************)

\* whether some line of a template text starts with PROPN ->
HasMarkerLine(t) ==
  \E l \in Range(SplitBy(t, <<"\n">>)) : StartsWith(l, <<"P", "R", "O", "P", "N", " ", "-", ">">>)

\* C12: when no line of the base template starts with PROPN ->, the grammar
\* build_extended_grammar returns is the template itself, whatever the
\* sentences: nothing is added to it, no MWP_j production either.
C12_NoMarkerNoChange ==
  (gpc = "done" /\ ~HasMarkerLine(TemplateText(base))) =>
    /\ grammar = TemplateText(base)
    /\ MwpProductionsOf(grammar) = {}

(***************************************************************************)
(* Two requests at once                                                    *)
(***************************************************************************)

\* the requests that have returned
Returned == { i \in Requests : threads[i].pc = "returned" }

\* the requests whose text a sequence of lines holds
Authors(lines) == { lines[k].by : k \in DOMAIN lines }

\* C13: two interleaved requests share nothing.  The diagnostics returned to
\* a request hold only text that request printed; what a request without
\* diagnostics prints is in no other request's diagnostics; and once both
\* have returned sys.stdout is the original stream again.
C13_RequestsShareNothing ==
  threads # <<>> =>
    /\ \A i \in Returned : Authors(threads[i].debug) \subseteq {i}
    /\ \A i \in Requests : ~threads[i].show =>
         \A j \in Returned \ {i} : i \notin Authors(threads[j].debug)
    /\ Returned = Requests => sys_stdout = "console"

====
